---- MODULE Spec2Model ----
(***************************************************************************)
(* Resiliency scoring of krkn chaos runs: the weighted score calculator    *)
(* (krkn/resiliency/score.py) and the Resiliency aggregator                *)
(* (krkn/resiliency/resiliency.py).                                        *)
(*                                                                         *)
(* Python values are represented as follows.                               *)
(*   None / Optional[x]  : <<>> for None, <<x>> for a value                *)
(*   dict                : a function; its DOMAIN is the set of keys       *)
(*   list                : a sequence                                      *)
(*   float               : an IEEE-754 binary64 value, kept as sign,       *)
(*                         53-bit significand in three limbs               *)
(*                         (17 + 18 + 18 bits) and the exponent of the     *)
(*                         leading bit; operations round to nearest, ties  *)
(*                         to even, as the hardware does                   *)
(***************************************************************************)
EXTENDS Integers, Sequences, FiniteSets, TLC

VARIABLES
    \* ---- one call of calculate_resiliency_score ----
    arg_slo_definitions,      \* dict: SLO name -> severity string or {severity, weight}
    arg_prometheus_results,   \* dict: SLO name -> bool
    arg_health_check_results, \* dict: health-check name -> bool
    ret_score                 \* None before the call, then (score, breakdown)

VARIABLES
    \* ---- one Resiliency aggregator and its surroundings ----
    slos,              \* self._slos: the normalised SLO records
    scenario_reports,  \* self.scenario_reports
    summary,           \* self.summary
    detailed_report,   \* self.detailed_report
    last               \* the most recent call: how it ended and what it did to
                       \* its arguments, standard output and the file system

score_vars == <<arg_slo_definitions, arg_prometheus_results,
                arg_health_check_results, ret_score>>
aggregator_vars == <<slos, scenario_reports, summary, detailed_report>>
vars == <<score_vars, aggregator_vars, last>>

----------------------------------------------------------------------------
(* Bounds of the model *)

\* longest scenario report list explored
MaxReports == 2
\* longest telemetry batch handed to add_scenario_reports
MaxBatch == 3

----------------------------------------------------------------------------
(* Python helpers *)

None == <<>>
Some(x) == <<x>>
IsNone(o) == o = <<>>
Val(o) == o[1]

\* dict.get(key, default)
DictGet(d, k, default) == IF k \in DOMAIN d THEN d[k] ELSE default

\* the keys of a dict, in one fixed iteration order
RECURSIVE Keys(_)
Keys(S) ==
    IF S = {} THEN <<>>
    ELSE LET k == CHOOSE x \in S : TRUE IN <<k>> \o Keys(S \ {k})

\* sum(...) over a list of integers
RECURSIVE Sum(_)
Sum(s) == IF s = <<>> THEN 0 ELSE Head(s) + Sum(Tail(s))

\* d without key k
Without(d, k) == [x \in DOMAIN d \ {k} |-> d[x]]

----------------------------------------------------------------------------
(* IEEE-754 binary64 arithmetic on the values the scorer meets:             *)
(* operands below 2^13 in magnitude, results below 2^17.                    *)

Abs(x) == IF x < 0 THEN -x ELSE x
Sign(x) == IF x < 0 THEN -1 ELSE 1

\* 2^n for n in 0..23
Pow2Table ==
    <<1, 2, 4, 8, 16, 32, 64, 128, 256, 512, 1024, 2048, 4096, 8192, 16384, 32768,
      65536, 131072, 262144, 524288, 1048576, 2097152, 4194304, 8388608>>
Pow2(n) == Pow2Table[n + 1]

\* scale n/d by powers of two until 1 <= n/d < 2; e is the power taken out
RECURSIVE Normalise(_, _, _)
Normalise(n, d, e) ==
    IF n < d THEN Normalise(2 * n, d, e - 1)
    ELSE IF n >= 2 * d THEN Normalise(n, 2 * d, e + 1)
    ELSE <<n, d, e>>

\* propagate the carry of a rounded-up significand through the limbs
Carry(m0, m1, m2, e) ==
    LET c2 == m2 \div Pow2(18)
        n1 == m1 + c2
        c1 == n1 \div Pow2(18)
        n0 == m0 + c1
    IN  IF n0 >= Pow2(17)
        THEN [m0 |-> n0 \div 2, m1 |-> 0, m2 |-> 0, e |-> e + 1]
        ELSE [m0 |-> n0, m1 |-> n1 % Pow2(18), m2 |-> m2 % Pow2(18), e |-> e]

FloatZero == [sign |-> 1, m0 |-> 0, m1 |-> 0, m2 |-> 0, e |-> 0]

\* a / b for Python ints: the correctly rounded quotient (b # 0)
FloatDiv(a, b) ==
    IF a = 0 THEN FloatZero
    ELSE
    LET nd == Normalise(Abs(a), Abs(b), 0)
        n  == nd[1]
        d  == nd[2]
        t0 == n * Pow2(16)
        m0 == t0 \div d
        t1 == (t0 % d) * Pow2(18)
        m1 == t1 \div d
        t2 == (t1 % d) * Pow2(18)
        m2 == t2 \div d
        r  == t2 % d
        up == (2 * r > d) \/ (2 * r = d /\ m2 % 2 = 1)
        c  == Carry(m0, m1, IF up THEN m2 + 1 ELSE m2, nd[3])
    IN  [sign |-> Sign(a) * Sign(b), m0 |-> c.m0, m1 |-> c.m1, m2 |-> c.m2, e |-> c.e]

\* f * 100: the exact product rounded to 53 bits
FloatMul100(f) ==
    IF f.m0 = 0 THEN f
    ELSE
    LET q2 == f.m2 * 100
        q1 == f.m1 * 100 + (q2 \div Pow2(18))
        p2 == q2 % Pow2(18)
        p1 == q1 % Pow2(18)
        p0 == f.m0 * 100 + (q1 \div Pow2(18))
        k  == IF p0 >= Pow2(23) THEN 7 ELSE 6
        n0 == p0 \div Pow2(k)
        n1 == (p1 \div Pow2(k)) + (p0 % Pow2(k)) * Pow2(18 - k)
        n2 == (p2 \div Pow2(k)) + (p1 % Pow2(k)) * Pow2(18 - k)
        low == p2 % Pow2(k)
        half == Pow2(k - 1)
        up == (low > half) \/ (low = half /\ n2 % 2 = 1)
        c  == Carry(n0, n1, IF up THEN n2 + 1 ELSE n2, f.e + k)
    IN  [sign |-> f.sign, m0 |-> c.m0, m1 |-> c.m1, m2 |-> c.m2, e |-> c.e]

\* int(f): truncation toward zero
FloatToInt(f) ==
    IF f.m0 = 0 \/ f.e < 0 THEN 0
    ELSE f.sign * (f.m0 \div Pow2(16 - f.e))

----------------------------------------------------------------------------
(* krkn/resiliency/score.py *)

DEFAULT_WEIGHTS == [critical |-> 3, warning |-> 1]

\* SLOResult.__init__
SLOResult(name, severity, passed, custom_weight) ==
    [name |-> name, severity |-> severity, passed |-> passed,
     custom_weight |-> custom_weight]

\* SLOResult.weight taking a custom weight of 0 for an absent one
SLOResult_weightTruthy(slo, severity_weights) ==
    IF ~IsNone(slo.custom_weight) /\ Val(slo.custom_weight) # 0
    THEN Val(slo.custom_weight)
    ELSE DictGet(severity_weights, slo.severity,
                 DictGet(severity_weights, "warning", 1))

\* SLOResult.weight
SLOResult_weight(slo, severity_weights) ==
    IF ~IsNone(slo.custom_weight) THEN Val(slo.custom_weight)
    ELSE DictGet(severity_weights, slo.severity,
                 DictGet(severity_weights, "warning", 1))

\* a definition in the old format is a bare severity string, kept as [str |-> s]
IsStr(slo_def) == DOMAIN slo_def = {"str"}

\* DefinitionObjects with an unevaluated SLO counted as failed instead of skipped
RECURSIVE DefinitionObjectsMissingFailed(_, _, _)
DefinitionObjectsMissingFailed(names, slo_definitions, prometheus_results) ==
    IF names = <<>> THEN <<>>
    ELSE
    LET slo_name == Head(names)
        slo_def  == slo_definitions[slo_name]
        rest     == DefinitionObjectsMissingFailed(Tail(names), slo_definitions,
                                                   prometheus_results)
        passed     == DictGet(prometheus_results, slo_name, FALSE)
        severity   == IF IsStr(slo_def) THEN slo_def.str
                      ELSE DictGet(slo_def, "severity", "warning")
        slo_weight == IF IsStr(slo_def) THEN None
                      ELSE DictGet(slo_def, "weight", None)
    IN  <<SLOResult(slo_name, severity, passed, slo_weight)>> \o rest

\* one pass of the loop over slo_definitions.items(), for the names given
RECURSIVE DefinitionObjects(_, _, _)
DefinitionObjects(names, slo_definitions, prometheus_results) ==
    IF names = <<>> THEN <<>>
    ELSE
    LET slo_name == Head(names)
        slo_def  == slo_definitions[slo_name]
        rest     == DefinitionObjects(Tail(names), slo_definitions, prometheus_results)
    IN  IF slo_name \notin DOMAIN prometheus_results THEN rest
        ELSE
        LET passed     == prometheus_results[slo_name]
            severity   == IF IsStr(slo_def) THEN slo_def.str
                          ELSE DictGet(slo_def, "severity", "warning")
            slo_weight == IF IsStr(slo_def) THEN None
                          ELSE DictGet(slo_def, "weight", None)
        IN  <<SLOResult(slo_name, severity, passed, slo_weight)>> \o rest

\* HealthCheckObjects leaving out a health check named like an evaluated SLO
RECURSIVE HealthCheckObjectsSkipsSloNames(_, _)
HealthCheckObjectsSkipsSloNames(names, health_check_results) ==
    IF names = <<>> THEN <<>>
    ELSE (IF Head(names) \in DOMAIN arg_prometheus_results THEN <<>>
          ELSE <<SLOResult(Head(names), "critical",
                           health_check_results[Head(names)], None)>>)
         \o HealthCheckObjectsSkipsSloNames(Tail(names), health_check_results)

\* HealthCheckObjects building the health checks with severity warning
RECURSIVE HealthCheckObjectsWarning(_, _)
HealthCheckObjectsWarning(names, health_check_results) ==
    IF names = <<>> THEN <<>>
    ELSE <<SLOResult(Head(names), "warning", health_check_results[Head(names)], None)>>
         \o HealthCheckObjectsWarning(Tail(names), health_check_results)

\* the loop over health_check_results.items()
RECURSIVE HealthCheckObjects(_, _)
HealthCheckObjects(names, health_check_results) ==
    IF names = <<>> THEN <<>>
    ELSE <<SLOResult(Head(names), "critical", health_check_results[Head(names)], None)>>
         \o HealthCheckObjects(Tail(names), health_check_results)

RECURSIVE Weights(_)
Weights(slo_objects) ==
    IF slo_objects = <<>> THEN <<>>
    ELSE <<SLOResult_weight(Head(slo_objects), DEFAULT_WEIGHTS)>>
         \o Weights(Tail(slo_objects))

Passed(slo_objects) == SelectSeq(slo_objects, LAMBDA s : s.passed)
NotPassed(slo_objects) == SelectSeq(slo_objects, LAMBDA s : ~s.passed)

\* ScoreFormula taking a run without points for a perfect one
ScoreFormulaEmptyIsPerfect(total_points, points_lost) ==
    IF total_points = 0 THEN 100
    ELSE FloatToInt(FloatMul100(FloatDiv(total_points - points_lost, total_points)))

\* int(((total_points - points_lost) / total_points) * 100)
ScoreFormula(total_points, points_lost) ==
    IF total_points = 0 THEN 0
    ELSE FloatToInt(FloatMul100(FloatDiv(total_points - points_lost, total_points)))

calculate_resiliency_score(slo_definitions, prometheus_results, health_check_results) ==
    LET slo_objects ==
            DefinitionObjects(Keys(DOMAIN slo_definitions), slo_definitions,
                              prometheus_results)
            \o HealthCheckObjects(Keys(DOMAIN health_check_results),
                                  health_check_results)
        total_points == Sum(Weights(slo_objects))
        points_lost  == Sum(Weights(NotPassed(slo_objects)))
    IN  [score     |-> ScoreFormula(total_points, points_lost),
         breakdown |-> [total_points |-> total_points,
                        points_lost  |-> points_lost,
                        passed       |-> Len(Passed(slo_objects)),
                        failed       |-> Len(NotPassed(slo_objects))]]

----------------------------------------------------------------------------
(* krkn/resiliency/resiliency.py *)

\* a datetime.datetime value, by its seconds since the epoch
datetime(t) == [timestamp |-> t]
\* datetime.isoformat(): the datetime as text
isoformat(dt) == <<"iso", dt.timestamp>>
\* datetime.datetime.fromtimestamp(int(ts))
fromtimestamp(ts) == datetime(ts)
\* truth value of an optional timestamp: None and 0 are false
Truthy(o) == ~IsNone(o) /\ Val(o) # 0

\* dict.get(key) and getattr(obj, key, None)
Get(d, k) == IF k \in DOMAIN d THEN Some(d[k]) ELSE None

\* f"slo_{idx}"
SloIndexName(idx) ==
    CASE idx = 0 -> "slo_0" [] idx = 1 -> "slo_1" [] idx = 2 -> "slo_2"
      [] OTHER -> "slo_n"

\* a scalar of the YAML document is kept as its text; ~ is YAML's null
YamlNull == "~"

\* str(value) of a scalar of the YAML document
str(value) == IF value = YamlNull THEN "None" ELSE value

\* str.lower() on the severities met
Lower(text) ==
    CASE text = "Critical" -> "critical" [] text = "CRITICAL" -> "critical"
      [] text = "Warning" -> "warning" [] text = "WARNING" -> "warning"
      [] text = "None" -> "none"
      [] OTHER -> text

\* an entry of the raw list that is no mapping is kept as [nondict |-> v]
IsDict(alert) == "nondict" \notin DOMAIN alert

\* NormaliseFrom giving up at the first invalid entry instead of skipping it
RECURSIVE NormaliseFromAborts(_, _)
NormaliseFromAborts(raw_alerts, idx) ==
    IF raw_alerts = <<>> THEN <<>>
    ELSE
    LET alert == Head(raw_alerts)
    IN  IF ~(IsDict(alert) /\ "expr" \in DOMAIN alert /\ "severity" \in DOMAIN alert)
        THEN <<>>
        ELSE <<[name     |-> SloIndexName(idx),
                expr     |-> alert.expr,
                severity |-> Lower(str(alert.severity)),
                weight   |-> Get(alert, "weight")]>>
             \o NormaliseFromAborts(Tail(raw_alerts), idx + 1)

\* Resiliency._normalise_alerts, for a raw value that is a list;
\* idx is the index of the first entry of raw_alerts in the whole list
RECURSIVE NormaliseFrom(_, _)
NormaliseFrom(raw_alerts, idx) ==
    IF raw_alerts = <<>> THEN <<>>
    ELSE
    LET alert == Head(raw_alerts)
        rest  == NormaliseFrom(Tail(raw_alerts), idx + 1)
    IN  IF ~(IsDict(alert) /\ "expr" \in DOMAIN alert /\ "severity" \in DOMAIN alert)
        THEN rest
        ELSE
        LET description == Get(alert, "description")
            name == IF IsNone(description) \/ Val(description) \in {"", YamlNull}
                    THEN SloIndexName(idx) ELSE Val(description)
        IN  <<[name     |-> name,
               expr     |-> alert.expr,
               severity |-> Lower(str(alert.severity)),
               weight   |-> Get(alert, "weight")]>> \o rest

normalise_alerts(raw_alerts) == NormaliseFrom(raw_alerts, 0)

\* the attributes Resiliency.__init__ sets on the instance
InstanceAttributes ==
    {"_slos", "_results", "_score", "_breakdown", "_health_check_results",
     "scenario_reports", "summary", "detailed_report"}
hasattr(name) == name \in InstanceAttributes

\* {slo["name"]: {"severity": ..., "weight": ...} for slo in self._slos}
RECURSIVE SloDefs(_)
SloDefs(slo_list) ==
    IF slo_list = <<>> THEN <<>>
    ELSE LET slo == slo_list[Len(slo_list)]
             before == SloDefs(SubSeq(slo_list, 1, Len(slo_list) - 1))
         IN  [n \in DOMAIN before \cup {slo.name} |->
                 IF n = slo.name
                 THEN [severity |-> slo.severity, weight |-> slo.weight]
                 ELSE before[n]]

\* every dict with keys among K and values in V
Dicts(K, V) == UNION {[S -> V] : S \in SUBSET K}

SloNamesOf(slo_list) == {slo_list[i].name : i \in 1..Len(slo_list)}

\* krkn.prometheus.collector.evaluate_slos: for each SLO record a verdict, or
\* no entry when its query returned no data; or the backend raises
evaluate_slos(slo_list) ==
    {[raised |-> TRUE, results |-> <<>>]}
    \cup {[raised |-> FALSE, results |-> r] : r \in Dicts(SloNamesOf(slo_list), BOOLEAN)}

\* AppendReport putting the new entry at the head of the list
AppendReportPrepends(reports, scenario_name, start_time, end_time, weight, health_check_results, slo_results, res) ==
    [exc     |-> "",
     reports |-> <<[name      |-> scenario_name,
                    window    |-> [start |-> isoformat(start_time),
                                   end   |-> isoformat(end_time)],
                    score     |-> res.score,
                    weight    |-> weight,
                    breakdown |-> res.breakdown,
                    slo_results |-> slo_results,
                    health_check_results |-> health_check_results]>> \o reports,
     score   |-> Some(res.score)]

\* AppendReport putting the new entry in place of the list
AppendReportResets(reports, scenario_name, start_time, end_time, weight, health_check_results, slo_results, res) ==
    [exc     |-> "",
     reports |-> <<[name      |-> scenario_name,
                    window    |-> [start |-> isoformat(start_time),
                                   end   |-> isoformat(end_time)],
                    score     |-> res.score,
                    weight    |-> weight,
                    breakdown |-> res.breakdown,
                    slo_results |-> slo_results,
                    health_check_results |-> health_check_results]>>,
     score   |-> Some(res.score)]

\* self.scenario_reports.append({...}); return score
AppendReport(reports, scenario_name, start_time, end_time, weight, health_check_results, slo_results, res) ==
    [exc     |-> "",
     reports |-> Append(reports,
                    [name      |-> scenario_name,
                     window    |-> [start |-> isoformat(start_time),
                                    end   |-> isoformat(end_time)],
                     score     |-> res.score,
                     weight    |-> weight,
                     breakdown |-> res.breakdown,
                     slo_results |-> slo_results,
                     health_check_results |-> health_check_results]),
     score   |-> Some(res.score)]

\* the answers of evaluate_slos to n calls in a row of which at most `room`
\* return: the members of [1..n -> evaluate_slos(slo_list)] with that many
Answers(slo_list, n, room) ==
    UNION { { [i \in 1..n |-> IF i \in S
                              THEN [raised |-> FALSE, results |-> r[i]]
                              ELSE [raised |-> TRUE, results |-> <<>>]] :
              r \in [S -> Dicts(SloNamesOf(slo_list), BOOLEAN)] } :
            S \in {T \in SUBSET (1..n) : Cardinality(T) <= room} }

\* Resiliency.add_scenario_report on the report list `reports`, the backend
\* answering `ev`: the exception raised (or ""), the report list and the score
AddScenarioReport(reports, scenario_name, start_time, end_time, weight, health_check_results, ev) ==
    IF ev.raised
    THEN [exc |-> "BackendError", reports |-> reports, score |-> None]
    ELSE AppendReport(reports, scenario_name, start_time, end_time, weight,
                      health_check_results, ev.results,
                      calculate_resiliency_score(SloDefs(slos), ev.results,
                                                 health_check_results))

\* Resiliency.compact_breakdown
compact_breakdown(report) ==
    LET complete == /\ "breakdown" \in DOMAIN report
                    /\ "passed" \in DOMAIN report.breakdown
                    /\ "failed" \in DOMAIN report.breakdown
                    /\ "score" \in DOMAIN report
        breakdown == DictGet(report, "breakdown", <<>>)
        passed == IF complete THEN report.breakdown.passed
                  ELSE DictGet(breakdown, "passed", 0)
        failed == IF complete THEN report.breakdown.failed
                  ELSE DictGet(breakdown, "failed", 0)
        score_val == IF complete THEN report.score ELSE DictGet(report, "score", 0)
    IN  [resiliency_score |-> score_val,
         passed_slos      |-> passed,
         total_slos       |-> passed + failed]

\* tel["resiliency_report"] = compact / setattr(tel, "resiliency_report", compact)
SetField(tel, key, value) ==
    [kind   |-> tel.kind,
     fields |-> [k \in DOMAIN tel.fields \cup {key} |->
                    IF k = key THEN value ELSE tel.fields[k]]]

\* the try block of the loop of add_scenario_reports once add_scenario_report
\* has answered `added`: the compact breakdown is attached to the item, or the
\* exception is caught and the item left alone
AttachCompact(done, tel, st_dt, en_dt, added) ==
    [exc         |-> "",
     reports     |-> added.reports,
     tels        |-> Append(done.tels,
                       IF added.exc # "" THEN tel
                       ELSE SetField(tel, "resiliency_report",
                               compact_breakdown(added.reports[Len(added.reports)]))),
     evals       |-> Append(done.evals, <<st_dt, en_dt>>),
     item_raised |-> Append(done.item_raised, added.exc # "")]

\* the body of the loop of add_scenario_reports for one item, `done` being
\* what the earlier items left and `ev` the backend's answer for this one
ProcessItem(done, tel, scenario_type, batch_start_dt, batch_end_dt, weight, ev) ==
    LET st_ts == Get(tel.fields, "start_timestamp")
        en_ts == Get(tel.fields, "end_timestamp")
        scen_name == DictGet(tel.fields, "scenario", scenario_type)
        own   == Truthy(st_ts) /\ Truthy(en_ts)
        st_dt == IF own THEN fromtimestamp(Val(st_ts)) ELSE batch_start_dt
        en_dt == IF own THEN fromtimestamp(Val(en_ts)) ELSE batch_end_dt
    IN  AttachCompact(done, tel, st_dt, en_dt,
                      AddScenarioReport(done.reports, scen_name, st_dt, en_dt,
                                        weight, <<>>, ev))

\* the state of a batch before its first item
BatchStart(reports) ==
    [exc |-> "", reports |-> reports, tels |-> <<>>, evals |-> <<>>,
     item_raised |-> <<>>]

\* ProcessBatch without the try block: the first exception of an item ends the
\* loop and leaves the call
RECURSIVE ProcessBatchAborts(_, _, _, _, _, _, _)
ProcessBatchAborts(done, tels, evs, scenario_type, batch_start_dt, batch_end_dt, weight) ==
    IF done.item_raised # <<>> /\ done.item_raised[Len(done.item_raised)]
    THEN [done EXCEPT !.exc = "BackendError",
                      !.tels = done.tels \o tels]
    ELSE IF tels = <<>> THEN done
    ELSE ProcessBatchAborts(ProcessItem(done, Head(tels), scenario_type,
                                        batch_start_dt, batch_end_dt, weight,
                                        Head(evs)),
                            Tail(tels), Tail(evs), scenario_type, batch_start_dt,
                            batch_end_dt, weight)

\* the loop of add_scenario_reports over the items `tels`, the backend
\* answering the i-th item's evaluation with evs[i]
RECURSIVE ProcessBatch(_, _, _, _, _, _, _)
ProcessBatch(done, tels, evs, scenario_type, batch_start_dt, batch_end_dt, weight) ==
    IF tels = <<>> THEN done
    ELSE ProcessBatch(ProcessItem(done, Head(tels), scenario_type, batch_start_dt,
                                  batch_end_dt, weight, Head(evs)),
                      Tail(tels), Tail(evs), scenario_type, batch_start_dt,
                      batch_end_dt, weight)

RECURSIVE Products(_)
Products(reports) ==
    IF reports = <<>> THEN <<>>
    ELSE <<Head(reports).score * Head(reports).weight>> \o Products(Tail(reports))

RECURSIVE ReportWeightsOf(_)
ReportWeightsOf(reports) ==
    IF reports = <<>> THEN <<>>
    ELSE <<Head(reports).weight>> \o ReportWeightsOf(Tail(reports))

\* {rep["name"]: rep["score"] for rep in self.scenario_reports}
RECURSIVE ScenarioScores(_)
ScenarioScores(reports) ==
    IF reports = <<>> THEN <<>>
    ELSE LET rep == reports[Len(reports)]
             before == ScenarioScores(SubSeq(reports, 1, Len(reports) - 1))
         IN  [n \in DOMAIN before \cup {rep.name} |->
                 IF n = rep.name THEN rep.score ELSE before[n]]

\* self.detailed_report holds the list object self.scenario_reports itself
ScenarioReportsRef == [scenarios |-> "self.scenario_reports"]

\* the value a reference to the report list denotes
Deref(ref) ==
    IF IsNone(ref) THEN None ELSE Some([scenarios |-> scenario_reports])

\* int(sum(score * weight) / total_weight)
WeightedAverage(reports) ==
    FloatToInt(FloatDiv(Sum(Products(reports)), Sum(ReportWeightsOf(reports))))

\* self.summary = {...}
Summary(resiliency_score, full_breakdown) ==
    [scenarios        |-> ScenarioScores(scenario_reports),
     resiliency_score |-> resiliency_score,
     passed_slos      |-> DictGet(full_breakdown, "passed", 0),
     total_slos       |-> DictGet(full_breakdown, "passed", 0)
                          + DictGet(full_breakdown, "failed", 0)]

\* a call of finalize_report left by the exception `exc` after the evaluations
\* `evals`: the two attributes stay as they were
Raised(exc, evals) ==
    [exc |-> exc, evals |-> evals, summary |-> summary,
     detailed_report |-> detailed_report]

\* FinalizeNonEmpty scoring the full window with the health checks of the
\* last report
FinalizeNonEmptyWithHealthChecks(ev, total_start_time, total_end_time) ==
    IF Sum(ReportWeightsOf(scenario_reports)) = 0
    THEN Raised("ZeroDivisionError", <<>>)
    ELSE IF ev.raised
    THEN Raised("BackendError", <<<<total_start_time, total_end_time>>>>)
    ELSE
    [exc     |-> "",
     evals   |-> <<<<total_start_time, total_end_time>>>>,
     summary |-> Some(Summary(WeightedAverage(scenario_reports),
                              calculate_resiliency_score(
                                  SloDefs(slos), ev.results,
                                  scenario_reports[Len(scenario_reports)].health_check_results
                              ).breakdown)),
     detailed_report |-> Some(ScenarioReportsRef)]

\* FinalizeNonEmpty scoring 0 when the weights sum to zero
FinalizeNonEmptyZeroScore(ev, total_start_time, total_end_time) ==
    IF ev.raised
    THEN Raised("BackendError", <<<<total_start_time, total_end_time>>>>)
    ELSE
    [exc     |-> "",
     evals   |-> <<<<total_start_time, total_end_time>>>>,
     summary |-> Some(Summary(IF Sum(ReportWeightsOf(scenario_reports)) = 0 THEN 0
                              ELSE WeightedAverage(scenario_reports),
                              calculate_resiliency_score(SloDefs(slos), ev.results,
                                                         <<>>).breakdown)),
     detailed_report |-> Some(ScenarioReportsRef)]

\* finalize_report from the weighted average on
FinalizeNonEmpty(ev, total_start_time, total_end_time) ==
    IF Sum(ReportWeightsOf(scenario_reports)) = 0
    THEN Raised("ZeroDivisionError", <<>>)
    ELSE IF ev.raised
    THEN Raised("BackendError", <<<<total_start_time, total_end_time>>>>)
    ELSE
    [exc     |-> "",
     evals   |-> <<<<total_start_time, total_end_time>>>>,
     summary |-> Some(Summary(WeightedAverage(scenario_reports),
                              calculate_resiliency_score(SloDefs(slos), ev.results,
                                                         <<>>).breakdown)),
     detailed_report |-> Some(ScenarioReportsRef)]

\* finalize_report without its check for an empty report list
FinalizeReportUnchecked(ev, total_start_time, total_end_time) ==
    FinalizeNonEmpty(ev, total_start_time, total_end_time)

\* Resiliency.finalize_report, the backend answering `ev`: the exception raised
\* (or ""), the two attributes afterwards and the windows evaluated
FinalizeReport(ev, total_start_time, total_end_time) ==
    IF scenario_reports = <<>>
    THEN Raised("RuntimeError", <<>>)
    ELSE FinalizeNonEmpty(ev, total_start_time, total_end_time)

\* json.dumps(obj) / json.dump(obj, fp, indent=2): the text of the value obj
\* has at this moment, on one line unless an indent is given
json_dumps(obj, indent) == [json |-> obj, indent |-> indent]

\* f"KRKN_RESILIENCY_REPORT_JSON:{detailed_json}"
SentinelLine(detailed_json) == <<"KRKN_RESILIENCY_REPORT_JSON:", detailed_json>>

\* what can happen while the report is persisted
PersistOutcomes(run_mode) ==
    IF run_mode = "controller"
    THEN {"ok", "dumps_raises", "print_raises"}
    ELSE {"ok", "open_raises", "dump_raises"}

\* PersistReport letting every exception reach the caller
PersistReportPropagates(fin, detailed, run_mode, detailed_path, persist) ==
    [exc     |-> IF fin.exc # "" THEN fin.exc
                 ELSE IF persist # "ok" THEN "Exception" ELSE "",
     printed |-> IF fin.exc = "" /\ run_mode = "controller" /\ persist = "ok"
                 THEN <<SentinelLine(json_dumps(Val(detailed), None))>> ELSE <<>>,
     written |-> <<>>]

\* PersistReport printing the sentinel line and writing the file in either mode
PersistReportBothOutputs(fin, detailed, run_mode, detailed_path, persist) ==
    IF fin.exc # ""
    THEN [exc |-> "", printed |-> <<>>, written |-> <<>>]
    ELSE [exc     |-> "",
          printed |-> <<SentinelLine(json_dumps(Val(detailed), None))>>,
          written |-> [path \in {detailed_path} |-> json_dumps(Val(detailed), Some(2))]]

\* the part of finalize_and_save after finalize_report returned `fin` and
\* get_detailed_report returned `detailed`: the
\* exception leaving the method (or ""), the lines printed on standard output
\* and the files written (path -> content)
PersistReport(fin, detailed, run_mode, detailed_path, persist) ==
    IF fin.exc # ""
    THEN [exc |-> "", printed |-> <<>>, written |-> <<>>]
    ELSE IF run_mode = "controller"
    THEN [exc     |-> "",
          printed |-> IF persist = "ok"
                      THEN <<SentinelLine(json_dumps(Val(detailed), None))>>
                      ELSE <<>>,
          written |-> <<>>]
    ELSE [exc     |-> "",
          printed |-> <<>>,
          written |-> CASE persist = "open_raises" -> <<>>
                        [] persist = "dump_raises" ->
                             [path \in {detailed_path} |-> "truncated"]
                        [] OTHER ->
                             [path \in {detailed_path} |->
                                 json_dumps(Val(detailed), Some(2))]]

----------------------------------------------------------------------------
(* The aggregator: construction, then any sequence of calls *)

\* the raw SLO lists the aggregator is constructed from
RawAlertChoices ==
    { <<[expr |-> "e1", severity |-> "Critical", description |-> "a"]>>,
      <<[nondict |-> "text"],
        [expr |-> "e2", severity |-> "warning", weight |-> -1]>> }

ScenarioNames == {"s1"}
Windows == {<<datetime(10), datetime(20)>>}
\* the weight and the health-check results a scenario is added with
ScenarioInputs ==
    { [weight |-> 1,  health_check_results |-> <<>>],
      [weight |-> 4,  health_check_results |-> <<>>],
      [weight |-> -1, health_check_results |-> [h |-> TRUE]] }
\* the weight a batch is added with
BatchWeights == {1}
TotalWindow == <<datetime(0), datetime(100)>>
BatchWindow == <<datetime(0), datetime(50)>>
BatchScenarioType == "s2"
\* the items of a batch: a dict carrying its own scenario name and window, and
\* an object carrying none
TelemetryItems ==
    { [kind |-> "dict",
       fields |-> [scenario |-> "s1", start_timestamp |-> 10, end_timestamp |-> 20]],
      [kind |-> "object", fields |-> <<>>] }
RunModes == {"controller", "standalone"}
DetailedPath == "resiliency-report.json"

\* every list of 1..n elements of S
Lists(S, n) == UNION {[1..k -> S] : k \in 1..n}

\* the record of a call: the method, the exception that left it, the value
\* returned and the windows evaluated; for a batch the caller's items as the
\* call left them and which of them raised; for finalize_and_save the run
\* mode, whether finalize_report succeeded, what happened while persisting,
\* the lines printed and the files written
Outcome(op, exc, ret, evals) ==
    [op |-> op, exc |-> exc, ret |-> ret, evals |-> evals,
     tels |-> <<>>, item_raised |-> <<>>,
     run_mode |-> "", persist |-> "", finalized |-> FALSE,
     printed |-> <<>>, written |-> <<>>]

NoScoreCall ==
    /\ arg_slo_definitions = <<>>
    /\ arg_prometheus_results = <<>>
    /\ arg_health_check_results = <<>>
    /\ ret_score = None

\* Resiliency.__init__
Init ==
    /\ NoScoreCall
    /\ \E raw_yaml_data \in RawAlertChoices : slos = normalise_alerts(raw_yaml_data)
    /\ scenario_reports = <<>>
    /\ summary = None
    /\ detailed_report = None
    /\ last = Outcome("__init__", "", None, <<>>)

add_scenario_report ==
    /\ Len(scenario_reports) < MaxReports
    /\ \E scenario_name \in ScenarioNames, window \in Windows,
          input \in ScenarioInputs, ev \in evaluate_slos(slos) :
          \E out \in {AddScenarioReport(scenario_reports, scenario_name, window[1],
                                       window[2], input.weight,
                                       input.health_check_results, ev)} :
              /\ scenario_reports' = out.reports
              /\ last' = Outcome("add_scenario_report", out.exc, out.score, <<window>>)
    /\ UNCHANGED <<slos, summary, detailed_report, score_vars>>

add_scenario_reports ==
    \E scenario_telemetries \in Lists(TelemetryItems, MaxBatch),
       weight \in BatchWeights :
       /\ \E evs \in Answers(slos, Len(scenario_telemetries),
                             MaxReports - Len(scenario_reports)) :
             \E out \in {ProcessBatch(BatchStart(scenario_reports),
                                      scenario_telemetries, evs, BatchScenarioType,
                                      BatchWindow[1], BatchWindow[2], weight)} :
                 /\ scenario_reports' = out.reports
                 /\ last' = [Outcome("add_scenario_reports", out.exc, None, out.evals)
                                EXCEPT !.tels = out.tels,
                                       !.item_raised = out.item_raised]
       /\ UNCHANGED <<slos, summary, detailed_report, score_vars>>

finalize_report ==
    /\ \E ev \in evaluate_slos(slos) :
          \E out \in {FinalizeReport(ev, TotalWindow[1], TotalWindow[2])} :
              /\ summary' = out.summary
              /\ detailed_report' = out.detailed_report
              /\ last' = Outcome("finalize_report", out.exc, None, out.evals)
    /\ UNCHANGED <<slos, scenario_reports, score_vars>>

get_summary ==
    /\ last' = IF ~hasattr("summary")
               THEN Outcome("get_summary", "RuntimeError", None, <<>>)
               ELSE Outcome("get_summary", "", Some(summary), <<>>)
    /\ UNCHANGED <<aggregator_vars, score_vars>>

get_detailed_report ==
    /\ last' = IF ~hasattr("detailed_report")
               THEN Outcome("get_detailed_report", "RuntimeError", None, <<>>)
               ELSE Outcome("get_detailed_report", "", Some(Deref(detailed_report)), <<>>)
    /\ UNCHANGED <<aggregator_vars, score_vars>>

\* finalize_and_save dropping the report when persisting it failed
finalize_and_save_discards ==
    /\ \E ev \in evaluate_slos(slos) :
          \E fin \in {FinalizeReport(ev, TotalWindow[1], TotalWindow[2])} :
              \E run_mode \in RunModes :
              \E persist \in (IF fin.exc = "" THEN PersistOutcomes(run_mode) ELSE {""}) :
              \E out \in {PersistReport(fin, Deref(fin.detailed_report), run_mode,
                                        DetailedPath, persist)} :
                     /\ summary' = IF persist \in {"", "ok"} THEN fin.summary ELSE None
                     /\ detailed_report' = IF persist \in {"", "ok"}
                                           THEN fin.detailed_report ELSE None
                     /\ last' = [Outcome("finalize_and_save", out.exc, None, fin.evals)
                                    EXCEPT !.run_mode = run_mode,
                                           !.persist = persist,
                                           !.finalized = (fin.exc = ""),
                                           !.printed = out.printed,
                                           !.written = out.written]
    /\ UNCHANGED <<slos, scenario_reports, score_vars>>

\* Resiliency.finalize_and_save
finalize_and_save ==
    /\ \E ev \in evaluate_slos(slos) :
          \E fin \in {FinalizeReport(ev, TotalWindow[1], TotalWindow[2])} :
              \E run_mode \in RunModes :
              \E persist \in (IF fin.exc = "" THEN PersistOutcomes(run_mode) ELSE {""}) :
              \E out \in {PersistReport(fin, Deref(fin.detailed_report), run_mode,
                                        DetailedPath, persist)} :
                     /\ summary' = fin.summary
                     /\ detailed_report' = fin.detailed_report
                     /\ last' = [Outcome("finalize_and_save", out.exc, None, fin.evals)
                                    EXCEPT !.run_mode = run_mode,
                                           !.persist = persist,
                                           !.finalized = (fin.exc = ""),
                                           !.printed = out.printed,
                                           !.written = out.written]
    /\ UNCHANGED <<slos, scenario_reports, score_vars>>

Next ==
    \/ add_scenario_report
    \/ add_scenario_reports
    \/ finalize_report
    \/ get_summary
    \/ get_detailed_report
    \/ finalize_and_save

Spec == Init /\ [][Next]_vars

----------------------------------------------------------------------------
(* The score calculator on its own: every input of the bounded sets, then   *)
(* one call.                                                                *)

SloNames == {"a", "b"}
HealthCheckNames == {"a", "h"}
Severities == {"critical", "warning", "info"}
CustomWeights == {None, Some(-1), Some(0), Some(21), Some(29)}

Definitions ==
    [severity : Severities, weight : CustomWeights]
    \cup [str : Severities]

\* the aggregator side while the calculator is studied on its own
NoAggregator ==
    /\ slos = <<>>
    /\ scenario_reports = <<>>
    /\ summary = None
    /\ detailed_report = None
    /\ last = <<>>

InitScore ==
    /\ NoAggregator
    /\ arg_slo_definitions \in Dicts(SloNames, Definitions)
    /\ arg_prometheus_results \in Dicts(SloNames, BOOLEAN)
    /\ arg_health_check_results \in Dicts(HealthCheckNames, BOOLEAN)
    /\ ret_score = None

CallScore ==
    /\ IsNone(ret_score)
    /\ ret_score' = Some(calculate_resiliency_score(arg_slo_definitions,
                                                     arg_prometheus_results,
                                                     arg_health_check_results))
    /\ UNCHANGED <<arg_slo_definitions, arg_prometheus_results,
                   arg_health_check_results>>
    /\ UNCHANGED <<aggregator_vars, last>>

NextScore == CallScore

SpecScore == InitScore /\ [][NextScore]_vars

----------------------------------------------------------------------------
(* Properties of the score calculator *)

Returned == ~IsNone(ret_score)
Ret == Val(ret_score)

C2_ScoreIsExactFloor ==
    (/\ Returned
     /\ Ret.breakdown.total_points # 0
     /\ 0 <= Ret.breakdown.points_lost
     /\ Ret.breakdown.points_lost <= Ret.breakdown.total_points) =>
        Ret.score = ((Ret.breakdown.total_points - Ret.breakdown.points_lost) * 100)
                        \div Ret.breakdown.total_points

----------------------------------------------------------------------------
(* Properties of the aggregator *)

\* the report list the detailed report denotes
Detailed == [scenarios |-> scenario_reports]

\* C3: the score stored in every scenario report, and the score
\* add_scenario_report returns, is an integer in 0..100.
C3_ReportScoreInRange ==
    /\ \A i \in 1..Len(scenario_reports) : scenario_reports[i].score \in 0..100
    /\ (last.op = "add_scenario_report" /\ last.exc = "") => Val(last.ret) \in 0..100

\* the positions of the items of the last batch that did not raise
Processed == {i \in 1..Len(last.tels) : ~last.item_raised[i]}
\* the position, in the report list, of the report of item i of the last batch
ReportOf(i) ==
    Len(scenario_reports) - Cardinality({j \in Processed : j >= i}) + 1

\* C4: add_scenario_reports never propagates an exception of an item: an item
\* whose evaluation raises gets no report and no resiliency_report, and every
\* other item of the batch is processed, in order, and carries the compact
\* breakdown {resiliency_score, passed_slos, total_slos} of its own report.
C4_BatchPartialFailure ==
    last.op = "add_scenario_reports" =>
        /\ last.exc = ""
        /\ Len(last.item_raised) = Len(last.tels)
        /\ Len(last.evals) = Len(last.tels)
        /\ Cardinality(Processed) <= Len(scenario_reports)
        /\ \A i \in 1..Len(last.tels) :
              IF last.item_raised[i]
              THEN "resiliency_report" \notin DOMAIN last.tels[i].fields
              ELSE /\ "resiliency_report" \in DOMAIN last.tels[i].fields
                   /\ LET rep == scenario_reports[ReportOf(i)]
                      IN  /\ last.tels[i].fields.resiliency_report =
                                [resiliency_score |-> rep.score,
                                 passed_slos |-> rep.breakdown.passed,
                                 total_slos  |-> rep.breakdown.passed
                                                 + rep.breakdown.failed]
                          /\ rep.window = [start |-> isoformat(last.evals[i][1]),
                                           end   |-> isoformat(last.evals[i][2])]
                          /\ rep.name = DictGet(last.tels[i].fields, "scenario",
                                                BatchScenarioType)

\* C4 witness: a batch of three items whose second evaluation raised and whose
\* first and third items were processed
C4_Witness ==
    /\ last.op = "add_scenario_reports"
    /\ last.item_raised = <<FALSE, TRUE, FALSE>>
    /\ "resiliency_report" \in DOMAIN last.tels[1].fields
    /\ "resiliency_report" \notin DOMAIN last.tels[2].fields
    /\ "resiliency_report" \in DOMAIN last.tels[3].fields
    /\ Len(scenario_reports) = 2

\* C5: after a successful finalize_report, summary.resiliency_score is
\* floor(sum(score * weight) / sum(weight)) over the accumulated reports.
C5_WeightedAverageIsFloor ==
    (last.op = "finalize_report" /\ last.exc = "") =>
        Val(summary).resiliency_score =
            Sum(Products(scenario_reports)) \div Sum(ReportWeightsOf(scenario_reports))

\* C6: finalize_report with no scenario report added signals the lifecycle
\* error, evaluates nothing against the backend and leaves summary and
\* detailed_report unset.
C6_FinalizeWithoutReports ==
    (last.op = "finalize_report" /\ scenario_reports = <<>>) =>
        /\ last.exc = "RuntimeError"
        /\ last.evals = <<>>
        /\ IsNone(summary)
        /\ IsNone(detailed_report)

\* C6 witness: finalize_report was called on an aggregator without reports
C6_Witness ==
    /\ last.op = "finalize_report"
    /\ scenario_reports = <<>>
    /\ last.exc = "RuntimeError"

\* C7: get_summary and get_detailed_report signal an error while no
\* finalize_report has completed successfully.
C7_ReadBeforeFinalizeSignalsError ==
    (last.op \in {"get_summary", "get_detailed_report"} /\ IsNone(summary)) =>
        last.exc # ""

\* C8: once summary and detailed_report have been set by a finalize step, no
\* later call changes their values.
C8_WriteOnce ==
    [][(~IsNone(summary) /\ ~IsNone(detailed_report)) =>
          /\ summary' = summary
          /\ Deref(detailed_report)' = Deref(detailed_report)]_vars

\* C9: finalize_and_save returns normally whatever fails inside it.
C9_FinalizeAndSaveNeverRaises ==
    last.op = "finalize_and_save" => last.exc = ""

\* C9 witness: finalize_and_save went through a finalize_report that failed on
\* the backend, and returned
C9_Witness ==
    /\ last.op = "finalize_and_save"
    /\ ~last.finalized
    /\ last.evals # <<>>
    /\ last.exc = ""

\* C10 as stated: with finalize succeeding, controller mode emits exactly one
\* line, the sentinel followed by the detailed report's JSON, and writes no
\* file; standalone mode writes the detailed report to detailed_path and emits
\* no sentinel line.
C10_OutputByRunMode ==
    (last.op = "finalize_and_save" /\ last.finalized) =>
        IF last.run_mode = "controller"
        THEN /\ last.printed = <<SentinelLine(json_dumps(Detailed, None))>>
             /\ last.written = <<>>
        ELSE /\ last.printed = <<>>
             /\ last.written = [path \in {DetailedPath} |-> json_dumps(Detailed, Some(2))]

\* C10 amended: with finalize succeeding, controller mode writes no file and
\* emits the one sentinel line when serialising and printing succeed, and
\* nothing otherwise; standalone mode emits no sentinel line and leaves the
\* detailed report at detailed_path when opening and writing succeed, no file
\* when opening fails and an incomplete file when writing fails.
C10_OutputByRunModeUnlessPersistFails ==
    (last.op = "finalize_and_save" /\ last.finalized) =>
        IF last.run_mode = "controller"
        THEN /\ last.written = <<>>
             /\ last.printed = IF last.persist = "ok"
                               THEN <<SentinelLine(json_dumps(Detailed, None))>>
                               ELSE <<>>
        ELSE /\ last.printed = <<>>
             /\ last.written =
                   CASE last.persist = "ok" ->
                          [path \in {DetailedPath} |-> json_dumps(Detailed, Some(2))]
                     [] last.persist = "open_raises" -> <<>>
                     [] OTHER -> [path \in {DetailedPath} |-> "truncated"]

\* C10 witness: a controller-mode call that finalized and printed its line
C10_Witness ==
    /\ last.op = "finalize_and_save"
    /\ last.finalized
    /\ last.run_mode = "controller"
    /\ last.persist = "ok"
    /\ Len(last.printed) = 1

\* C11: a successful add_scenario_report appends exactly one entry, leaves the
\* entries already there as they were and returns the score stored in the new
\* entry; a call whose evaluation raises appends nothing.
C11_AddAppendsOne ==
    [][last'.op = "add_scenario_report" =>
          IF last'.exc = ""
          THEN /\ Len(scenario_reports') = Len(scenario_reports) + 1
               /\ SubSeq(scenario_reports', 1, Len(scenario_reports)) = scenario_reports
               /\ Val(last'.ret) = scenario_reports'[Len(scenario_reports')].score
          ELSE scenario_reports' = scenario_reports]_vars

\* C11 witness: a second report was added to a list that held one
C11_Witness ==
    /\ last.op = "add_scenario_report"
    /\ last.exc = ""
    /\ Len(scenario_reports) = 2
    /\ Val(last.ret) = scenario_reports[2].score

\* the windows, of those evaluated in order by a call, whose evaluation returned
RECURSIVE Kept(_, _)
Kept(evals, raised) ==
    IF evals = <<>> THEN <<>>
    ELSE (IF Head(raised) THEN <<>> ELSE <<Head(evals)>>) \o Kept(Tail(evals), Tail(raised))
ReturnedEvals(call) ==
    IF call.op = "add_scenario_reports" THEN Kept(call.evals, call.item_raised)
    ELSE IF call.exc = "" THEN call.evals ELSE <<>>
\* the windows of a list of reports, in order
RECURSIVE ReportWindows(_)
ReportWindows(reports) ==
    IF reports = <<>> THEN <<>>
    ELSE <<Head(reports).window>> \o ReportWindows(Tail(reports))
RECURSIVE IsoWindows(_)
IsoWindows(evals) ==
    IF evals = <<>> THEN <<>>
    ELSE <<[start |-> isoformat(Head(evals)[1]), end |-> isoformat(Head(evals)[2])]>>
         \o IsoWindows(Tail(evals))

\* C12: the report list keeps strict insertion order, which is the order the
\* window evaluations were issued in and the order of the detailed report:
\* every adding call leaves the earlier entries in place and puts behind them
\* one entry per evaluation that returned, in the order of the evaluations,
\* and the detailed report lists the entries in the order of the list.
C12_InsertionOrder ==
    [][/\ last'.op \in {"add_scenario_report", "add_scenario_reports"} =>
            /\ Len(scenario_reports') >= Len(scenario_reports)
            /\ SubSeq(scenario_reports', 1, Len(scenario_reports)) = scenario_reports
            /\ ReportWindows(SubSeq(scenario_reports', Len(scenario_reports) + 1,
                                    Len(scenario_reports')))
                  = IsoWindows(ReturnedEvals(last'))
       /\ ~IsNone(detailed_report') =>
            Val(Deref(detailed_report)').scenarios = scenario_reports'
       /\ (last'.op = "finalize_and_save" /\ last'.printed # <<>>) =>
            last'.printed[1][2].json.scenarios = scenario_reports']_vars

\* C12 witness: a batch whose second item was skipped put two reports with
\* different windows behind one another
C12_Witness ==
    /\ last.op = "add_scenario_reports"
    /\ last.item_raised = <<FALSE, TRUE, FALSE>>
    /\ last.evals[1] = BatchWindow
    /\ last.evals[3] = <<datetime(10), datetime(20)>>
    /\ ReportWindows(scenario_reports) = IsoWindows(<<last.evals[1], last.evals[3]>>)

----------------------------------------------------------------------------
(* Telemetry enrichment on its own: a report list and a telemetry object    *)
(* drawn from bounded sets, then calls of attach_compact_to_telemetry and   *)
(* compact_breakdown.  A telemetry item is a dict (fields: its keys), an    *)
(* instance of a dataclass (fields: its declared fields, extras: the other  *)
(* attributes set on the instance) or an instance of a plain class          *)
(* (fields: its attributes).                                                *)

\* dataclasses.asdict(item): the declared fields, or TypeError (None) for an
\* item that is no dataclass instance
asdict(item) == IF item.kind = "dataclass" THEN Some(item.fields) ELSE None

\* {k: getattr(item, k) for k in dir(item) if not dunder and not callable}
AttributeDict(item) ==
    [k \in DOMAIN item.fields \cup DOMAIN item.extras |->
        IF k \in DOMAIN item.extras THEN item.extras[k] ELSE item.fields[k]]

\* {rep["name"]: self.compact_breakdown(rep) for rep in self.scenario_reports}
RECURSIVE ScoreMap(_)
ScoreMap(reports) ==
    IF reports = <<>> THEN <<>>
    ELSE LET rep == reports[Len(reports)]
             before == ScoreMap(SubSeq(reports, 1, Len(reports) - 1))
         IN  [n \in DOMAIN before \cup {rep.name} |->
                 IF n = rep.name THEN compact_breakdown(rep) ELSE before[n]]

\* d[key] = value
SetKey(d, key, value) ==
    [k \in DOMAIN d \cup {key} |-> IF k = key THEN value ELSE d[k]]

\* a dict holding the keys `fields`
AsDictItem(fields) == [kind |-> "dict", fields |-> fields, extras |-> <<>>]

\* the body of the loop of attach_compact_to_telemetry: the entry of
\* new_scenarios made from `item`
AttachItem(item, score_map) ==
    IF item.kind = "dict"
    THEN LET name == Get(item.fields, "scenario")
         IN  IF ~IsNone(name) /\ Val(name) \in DOMAIN score_map
             THEN AsDictItem(SetKey(item.fields, "resiliency_report",
                                    score_map[Val(name)]))
             ELSE item
    ELSE LET name == Get(AttributeDict(item), "scenario")
             item_dict == IF ~IsNone(asdict(item)) THEN Val(asdict(item))
                          ELSE AttributeDict(item)
         IN  IF ~IsNone(name) /\ Val(name) \in DOMAIN score_map
             THEN AsDictItem(SetKey(item_dict, "resiliency_report",
                                    score_map[Val(name)]))
             ELSE AsDictItem(item_dict)

\* Resiliency.attach_compact_to_telemetry: chaos_telemetry.scenarios afterwards
RECURSIVE NewScenarios(_, _)
NewScenarios(scenarios, score_map) ==
    IF scenarios = <<>> THEN <<>>
    ELSE <<AttachItem(Head(scenarios), score_map)>>
         \o NewScenarios(Tail(scenarios), score_map)

\* compact_breakdown raises: report["breakdown"]["passed"] fails and, in the
\* handler, report.get("breakdown", {}) is a value without .get
CompactBreakdownRaises(report) ==
    "breakdown" \in DOMAIN report /\ ~IsDict(report.breakdown)

\* Resiliency.compact_breakdown called on its own: how the call ends and the
\* value returned
CompactBreakdownCall(report) ==
    IF CompactBreakdownRaises(report)
    THEN [exc |-> "AttributeError", ret |-> None]
    ELSE [exc |-> "", ret |-> Some(compact_breakdown(report))]

\* the reports the enrichment is studied on: complete ones, ones that lack
\* the score, the breakdown or keys of the breakdown, and ones whose breakdown
\* is None
BreakdownChoices ==
    {None, Some(<<>>), Some([passed |-> 1]), Some([failed |-> 2]),
     Some([passed |-> 1, failed |-> 2]), Some([nondict |-> "None"])}
ScoreChoices == {None, Some(50)}
MakeReport(name, score, breakdown) ==
    [k \in {"name"} \cup (IF IsNone(score) THEN {} ELSE {"score"})
                    \cup (IF IsNone(breakdown) THEN {} ELSE {"breakdown"}) |->
        CASE k = "name" -> name
          [] k = "score" -> Val(score)
          [] OTHER -> Val(breakdown)]
ReportChoices ==
    {MakeReport("s1", sc, b) : sc \in ScoreChoices, b \in BreakdownChoices}
    \cup {MakeReport("s2", Some(100), Some([passed |-> 2, failed |-> 0]))}

\* the telemetry items the enrichment is studied on
AttachItems ==
    { [kind |-> "dict", fields |-> [scenario |-> "s1", exit_status |-> 0],
       extras |-> <<>>],
      [kind |-> "dict", fields |-> [exit_status |-> 1], extras |-> <<>>],
      [kind |-> "dataclass", fields |-> [scenario |-> "s1", exit_status |-> 0],
       extras |-> <<>>],
      [kind |-> "dataclass", fields |-> [scenario |-> "s1", exit_status |-> 0],
       extras |-> [cluster_note |-> "x"]],
      [kind |-> "object", fields |-> [scenario |-> "s2", cluster_note |-> "x"],
       extras |-> <<>>] }

\* longest report list and longest telemetry studied
MaxAttachReports == 2
MaxAttachItems == 2

\* the record of a call in this study: the method, its argument as it was
\* before the call, the value returned and chaos_telemetry.scenarios afterwards
AttachCall(op, arg, ret, scenarios) ==
    [op |-> op, exc |-> "", arg |-> arg, ret |-> ret, tels |-> scenarios]

InitAttach ==
    /\ NoScoreCall
    /\ slos = <<>>
    /\ summary = None
    /\ detailed_report = None
    /\ scenario_reports \in {<<>>} \cup Lists(ReportChoices, MaxAttachReports)
    /\ \E scenarios \in {<<>>} \cup Lists(AttachItems, MaxAttachItems) :
          last = AttachCall("__init__", <<>>, None, scenarios)

attach_compact_to_telemetry ==
    /\ last' = IF \E i \in 1..Len(scenario_reports) :
                    CompactBreakdownRaises(scenario_reports[i])
               THEN [AttachCall("attach_compact_to_telemetry", last.tels, None,
                                last.tels) EXCEPT !.exc = "AttributeError"]
               ELSE AttachCall("attach_compact_to_telemetry", last.tels, None,
                               NewScenarios(last.tels, ScoreMap(scenario_reports)))
    /\ UNCHANGED <<aggregator_vars, score_vars>>

call_compact_breakdown ==
    /\ \E i \in 1..Len(scenario_reports) :
          \E out \in {CompactBreakdownCall(scenario_reports[i])} :
              last' = [AttachCall("compact_breakdown", scenario_reports[i],
                                  out.ret, last.tels) EXCEPT !.exc = out.exc]
    /\ UNCHANGED <<aggregator_vars, score_vars>>

NextAttach ==
    \/ attach_compact_to_telemetry
    \/ call_compact_breakdown

SpecAttach == InitAttach /\ [][NextAttach]_vars

----------------------------------------------------------------------------
(* Properties of the telemetry enrichment *)

\* every field and attribute the item carried
Carried(item) == AttributeDict(item)

\* C13: attach_compact_to_telemetry keeps every field an entry carried before
\* the call, for dicts and for objects, undeclared attributes included; the
\* only key an entry gains is resiliency_report.
C13_AttachPreservesFields ==
    last.op = "attach_compact_to_telemetry" =>
        /\ Len(last.tels) = Len(last.arg)
        /\ \A i \in 1..Len(last.arg) :
              /\ \A k \in DOMAIN Carried(last.arg[i]) \ {"resiliency_report"} :
                    /\ k \in DOMAIN last.tels[i].fields
                    /\ last.tels[i].fields[k] = Carried(last.arg[i])[k]
              /\ DOMAIN last.tels[i].fields \subseteq
                    DOMAIN Carried(last.arg[i]) \cup {"resiliency_report"}

----------------------------------------------------------------------------
(* Loading the SLO definitions on its own: every document of the bounded   *)
(* set, then either the loader alone or the constructor and a first        *)
(* scenario.                                                               *)

\* yaml.safe_load's value: a list is kept as [list |-> entries], a mapping as
\* [mapping |-> d], a scalar as [scalar |-> text] and an empty document or
\* null as [scalar |-> YamlNull]
IsList(raw_alerts) == "list" \in DOMAIN raw_alerts

\* NormaliseAlerts taking a value that is no list for the empty list
NormaliseAlertsLenient(raw_alerts) ==
    IF ~IsList(raw_alerts)
    THEN [exc |-> "", ret |-> Some(<<>>)]
    ELSE [exc |-> "", ret |-> Some(normalise_alerts(raw_alerts.list))]

\* Resiliency._normalise_alerts on any value: how the call ends and the
\* records returned
NormaliseAlerts(raw_alerts) ==
    IF ~IsList(raw_alerts)
    THEN [exc |-> "ValueError", ret |-> None]
    ELSE [exc |-> "", ret |-> Some(normalise_alerts(raw_alerts.list))]

\* the entries a document's list is made of: no mapping, a mapping lacking
\* severity, one lacking expr, one lacking both, and mappings holding both,
\* among them one whose expr is empty and whose severity is null
RawEntries ==
    { [nondict |-> "text"],
      [expr |-> "e0"],
      [severity |-> "warning"],
      [description |-> "d"],
      [expr |-> "e1", severity |-> "Critical"],
      [expr |-> "", severity |-> YamlNull, description |-> "d"],
      [expr |-> "e2", severity |-> "warning", description |-> "", weight |-> 5] }

\* longest list of entries studied
MaxRawLen == 3

\* the documents: lists of entries, the empty list, and values that are no list
RawYamlChoices ==
    {[list |-> l] : l \in {<<>>} \cup Lists(RawEntries, MaxRawLen)}
    \cup { [mapping |-> <<>>],
           [mapping |-> [slos |-> <<>>]],
           [scalar |-> "text"],
           [scalar |-> YamlNull] }

\* the record of a call in this study: the method, the exception that left
\* it, its argument and the value returned
LoadCall(op, exc, arg, ret) == [op |-> op, exc |-> exc, arg |-> arg, ret |-> ret]

\* the document is there and nothing was constructed or called yet
InitLoad ==
    /\ NoScoreCall
    /\ slos = <<>>
    /\ scenario_reports = <<>>
    /\ summary = None
    /\ detailed_report = None
    /\ \E raw_yaml_data \in RawYamlChoices :
          last = LoadCall("start", "", raw_yaml_data, None)

\* Resiliency._normalise_alerts called as the static method it is
call_normalise_alerts ==
    /\ last.op = "start"
    /\ \E out \in {NormaliseAlerts(last.arg)} :
          last' = LoadCall("_normalise_alerts", out.exc, last.arg, out.ret)
    /\ UNCHANGED <<aggregator_vars, score_vars>>

\* Resiliency.__init__ on an existing file holding the document
Resiliency_init ==
    /\ last.op = "start"
    /\ \E out \in {NormaliseAlerts(last.arg)} :
          /\ last' = LoadCall("__init__", out.exc, last.arg, None)
          /\ slos' = IF out.exc = "" THEN Val(out.ret) ELSE slos
    /\ scenario_reports' = <<>>
    /\ summary' = None
    /\ detailed_report' = None
    /\ UNCHANGED score_vars

\* an instance exists once __init__ has returned
Constructed == last.op = "__init__" /\ last.exc = ""

\* the first add_scenario_report on the instance just constructed
first_scenario_report ==
    /\ Constructed
    /\ add_scenario_report

NextLoad ==
    \/ call_normalise_alerts
    \/ Resiliency_init
    \/ first_scenario_report

SpecLoad == InitLoad /\ [][NextLoad]_vars

----------------------------------------------------------------------------
(* Properties of the definition loading *)

ValidEntries(entries) ==
    {i \in 1..Len(entries) :
        /\ "nondict" \notin DOMAIN entries[i]
        /\ {"expr", "severity"} \subseteq DOMAIN entries[i]}

\* records holds one record per valid entry and nothing else, in the entries'
\* order: the k-th record carries the expr and the weight of the k-th valid
\* entry, and its description or else the name made of that entry's index
OneRecordPerValidEntry(records, entries) ==
    /\ Len(records) = Cardinality(ValidEntries(entries))
    /\ \A i \in ValidEntries(entries) :
          LET k == Cardinality({j \in ValidEntries(entries) : j <= i})
              entry == entries[i]
          IN  /\ records[k].expr = entry.expr
              /\ records[k].weight = Get(entry, "weight")
              /\ records[k].name =
                    IF "description" \in DOMAIN entry /\ entry.description \notin {"", YamlNull}
                    THEN entry.description
                    ELSE SloIndexName(i - 1)

\* C15: for every list of entries the loader returns, without raising, exactly
\* one record per entry that is a mapping holding both expr and severity and
\* none for any other entry, in the order of the entries; the constructor
\* keeps that same list.
C15_OneRecordPerValidEntry ==
    /\ (last.op = "_normalise_alerts" /\ IsList(last.arg)) =>
          /\ last.exc = ""
          /\ ~IsNone(last.ret)
          /\ OneRecordPerValidEntry(Val(last.ret), last.arg.list)
    /\ (last.op = "__init__" /\ IsList(last.arg)) =>
          /\ last.exc = ""
          /\ OneRecordPerValidEntry(slos, last.arg.list)

C15_Witness ==
    /\ last.op = "_normalise_alerts"
    /\ last.arg = [list |-> <<[expr |-> "e1", severity |-> "Critical"],
                              [expr |-> "e0"],
                              [expr |-> "e2", severity |-> "warning",
                               description |-> "", weight |-> 5]>>]
    /\ Len(Val(last.ret)) = 2
    /\ Val(last.ret)[2].name = "slo_2"

----------------------------------------------------------------------------
(* Further properties of the score calculator *)

FlippedSlo(name) ==
    calculate_resiliency_score(arg_slo_definitions,
                               [arg_prometheus_results EXCEPT ![name] = FALSE],
                               arg_health_check_results).score

\* the score returned when the health check `name` is failed instead
FlippedHealthCheck(name) ==
    calculate_resiliency_score(arg_slo_definitions, arg_prometheus_results,
                               [arg_health_check_results EXCEPT ![name] = FALSE]).score

\* C17: with definitions, weights and all other verdicts fixed, turning one
\* included SLO or one health check from passed to failed never raises the
\* score.
C17_FailingNeverRaisesScore ==
    Returned =>
        /\ \A name \in DOMAIN arg_prometheus_results \cap DOMAIN arg_slo_definitions :
              arg_prometheus_results[name] => FlippedSlo(name) <= Ret.score
        /\ \A name \in DOMAIN arg_health_check_results :
              arg_health_check_results[name] => FlippedHealthCheck(name) <= Ret.score

\* the breakdown returned for the same definitions and results without any
\* health check
WithoutHealthChecks ==
    calculate_resiliency_score(arg_slo_definitions, arg_prometheus_results,
                               <<>>).breakdown

\* C18: every health check adds exactly 3, the default weight of critical, to
\* total_points, and 3 to points_lost when it failed, whatever custom weight a
\* definition of the same name carries.
C18_HealthChecksWeighCritical ==
    Returned =>
        /\ Ret.breakdown.total_points =
              WithoutHealthChecks.total_points
              + 3 * Cardinality(DOMAIN arg_health_check_results)
        /\ Ret.breakdown.points_lost =
              WithoutHealthChecks.points_lost
              + 3 * Cardinality({name \in DOMAIN arg_health_check_results :
                                    ~arg_health_check_results[name]})

\* a failed health check named like an evaluated SLO of custom weight 21
C18_Witness ==
    /\ Returned
    /\ arg_slo_definitions = [a |-> [severity |-> "warning", weight |-> Some(21)]]
    /\ arg_prometheus_results = [a |-> TRUE]
    /\ arg_health_check_results = [a |-> FALSE]
    /\ Ret.breakdown.total_points = 24
    /\ Ret.breakdown.points_lost = 3

----------------------------------------------------------------------------
(* Properties of compact_breakdown *)

\* the value of report[key][sub], or 0 when either key is missing
CountOrZero(report, sub) ==
    IF "breakdown" \in DOMAIN report /\ sub \in DOMAIN report.breakdown
    THEN report.breakdown[sub] ELSE 0

\* C19: compact_breakdown returns without error for every report given as a
\* mapping; passed_slos is the report's passed count, total_slos is passed_slos
\* plus the report's failed count and resiliency_score is the report's score,
\* each taken as 0 when missing.
C19_CompactBreakdownTotal ==
    last.op = "compact_breakdown" =>
        /\ last.exc = ""
        /\ ~IsNone(last.ret)
        /\ Val(last.ret).passed_slos = CountOrZero(last.arg, "passed")
        /\ Val(last.ret).total_slos =
              Val(last.ret).passed_slos + CountOrZero(last.arg, "failed")
        /\ Val(last.ret).resiliency_score = DictGet(last.arg, "score", 0)

----------------------------------------------------------------------------
(* Further properties of the aggregator *)

\* the last call was a finalize_and_save whose finalize step succeeded and
\* whose persistence failed
PersistFailed(call) ==
    call.op = "finalize_and_save" /\ call.finalized /\ call.persist # "ok"

\* C20: when the finalize step of finalize_and_save succeeds and persistence
\* fails, summary and detailed_report are left as that finalize step computed
\* them, and get_summary / get_detailed_report called next return them.
C20_PersistFailureKeepsReport ==
    [][/\ PersistFailed(last') =>
              /\ ~IsNone(summary') /\ ~IsNone(detailed_report')
              /\ \E ev \in evaluate_slos(slos) :
                    \E fin \in {FinalizeReport(ev, TotalWindow[1], TotalWindow[2])} :
                        /\ fin.exc = ""
                        /\ summary' = fin.summary
                        /\ detailed_report' = fin.detailed_report
       /\ (PersistFailed(last) /\ last'.op = "get_summary") =>
              last'.exc = "" /\ last'.ret = Some(summary) /\ ~IsNone(summary)
       /\ (PersistFailed(last) /\ last'.op = "get_detailed_report") =>
              /\ last'.exc = ""
              /\ last'.ret = Some(Deref(detailed_report))
              /\ ~IsNone(detailed_report)]_vars

\* a standalone call that finalized and could not open the report file
C20_Witness ==
    /\ PersistFailed(last)
    /\ last.persist = "open_raises"
    /\ last.written = <<>>
    /\ ~IsNone(summary)
    /\ Val(summary).resiliency_score = 100

----------------------------------------------------------------------------
(* Further properties of the definition loading *)

\* C21: every record the loader returns has a non-empty expr and a non-empty
\* severity, whatever the entries, entries whose expr or severity is an empty
\* string or null included.
C21_LoadedRecordsNonEmpty ==
    (last.op = "_normalise_alerts" /\ last.exc = "") =>
        \A k \in 1..Len(Val(last.ret)) :
            /\ Val(last.ret)[k].expr \notin {"", YamlNull}
            /\ Val(last.ret)[k].severity # ""

----------------------------------------------------------------------------
(* Properties of the breakdown the calculator returns *)

\* C22: every breakdown returned satisfies total_points >= points_lost >= 0,
\* definitions with custom weights included.
C22_PointsOrdered ==
    Returned =>
        /\ Ret.breakdown.total_points >= Ret.breakdown.points_lost
        /\ Ret.breakdown.points_lost >= 0

SeverityDefault(severity) ==
    CASE severity = "critical" -> 3 [] severity = "warning" -> 1 [] OTHER -> 1

\* the weight the claim gives a definition: its custom weight when it has
\* one, else the default of its severity
ClaimedWeight(slo_def) ==
    IF "str" \in DOMAIN slo_def THEN SeverityDefault(slo_def.str)
    ELSE IF slo_def.weight # None THEN slo_def.weight[1]
    ELSE SeverityDefault(slo_def.severity)

\* the claimed weights of the evaluated definitions among `names` whose
\* verdict is in `verdicts`, summed
RECURSIVE ClaimedPoints(_, _)
ClaimedPoints(names, verdicts) ==
    IF names = {} THEN 0
    ELSE LET name == CHOOSE n \in names : TRUE
         IN  (IF /\ name \in DOMAIN arg_prometheus_results
                 /\ arg_prometheus_results[name] \in verdicts
              THEN ClaimedWeight(arg_slo_definitions[name]) ELSE 0)
             + ClaimedPoints(names \ {name}, verdicts)

\* C25: an evaluated SLO contributes its definition's custom weight whenever
\* one is present, 0 included, and otherwise the default of its severity:
\* 3 for critical, 1 for warning and 1 for any other severity string.
C25_ResolvedWeight ==
    Returned =>
        /\ Ret.breakdown.total_points
              - 3 * Cardinality(DOMAIN arg_health_check_results) =
              ClaimedPoints(DOMAIN arg_slo_definitions, BOOLEAN)
        /\ Ret.breakdown.points_lost
              - 3 * Cardinality({name \in DOMAIN arg_health_check_results :
                                    ~arg_health_check_results[name]}) =
              ClaimedPoints(DOMAIN arg_slo_definitions, {FALSE})

\* a failed SLO of custom weight 0 beside a passed one of severity info
C25_Witness ==
    /\ Returned
    /\ arg_slo_definitions = [a |-> [severity |-> "critical", weight |-> Some(0)],
                              b |-> [str |-> "info"]]
    /\ arg_prometheus_results = [a |-> FALSE, b |-> TRUE]
    /\ arg_health_check_results = <<>>
    /\ Ret.breakdown.total_points = 1
    /\ Ret.breakdown.points_lost = 0

----------------------------------------------------------------------------
(* Properties of finalize_report *)

\* the weights of the accumulated reports sum to zero
ZeroTotalWeight ==
    /\ scenario_reports # <<>>
    /\ Sum([i \in 1..Len(scenario_reports) |-> scenario_reports[i].weight]) = 0

\* C24: when the weights of the accumulated reports sum to zero,
\* finalize_report ends in an error and leaves summary and detailed_report as
\* they were before the call.
C24_ZeroWeightIsAnError ==
    [][(last'.op = "finalize_report" /\ ZeroTotalWeight) =>
          /\ last'.exc = "ZeroDivisionError"
          /\ summary' = summary
          /\ detailed_report' = detailed_report
          /\ scenario_reports' = scenario_reports]_vars

\* a finalize_report that failed on a zero total weight after an earlier one
\* had succeeded
C24_Witness ==
    /\ last.op = "finalize_report"
    /\ last.exc = "ZeroDivisionError"
    /\ ZeroTotalWeight
    /\ ~IsNone(summary)

----------------------------------------------------------------------------
(* Properties relating the summary, the detailed report and the reports *)

\* the names of the entries of a list of reports
ReportNamesOf(reports) == {reports[i].name : i \in 1..Len(reports)}

\* C28: in every state after a successful finalize_report, states reached by
\* adding further reports included, the names in summary.scenarios are the
\* names of the entries of detailed_report.scenarios.
C28_SummaryAndDetailedAgree ==
    (~IsNone(summary) /\ ~IsNone(detailed_report)) =>
        DOMAIN Val(summary).scenarios =
            ReportNamesOf(Val(Deref(detailed_report)).scenarios)

\* C29: after a successful finalize_report, summary.scenarios[r.name] is
\* r.score for every accumulated report r, reports sharing a name included.
C29_SummaryHoldsEveryScore ==
    (last.op = "finalize_report" /\ last.exc = "") =>
        \A i \in 1..Len(scenario_reports) :
            /\ scenario_reports[i].name \in DOMAIN Val(summary).scenarios
            /\ Val(summary).scenarios[scenario_reports[i].name]
                  = scenario_reports[i].score

----------------------------------------------------------------------------
(* Batches on their own: an aggregator with one SLO, batches of items that *)
(* supply or omit their name and their timestamps, and the enrichment of   *)
(* the same entries afterwards.                                            *)

\* the SLO list the aggregator of this study is constructed from
BatchSloSource == <<[expr |-> "e1", severity |-> "Critical", description |-> "a"]>>

\* the items of a batch: dicts and objects that supply both timestamps, one
\* of them or none, with or without a scenario name
BatchItems ==
    { [kind |-> "dict",
       fields |-> [scenario |-> "s1", start_timestamp |-> 10, end_timestamp |-> 20]],
      [kind |-> "dict", fields |-> [scenario |-> "s1"]],
      [kind |-> "dict", fields |-> [start_timestamp |-> 10]],
      [kind |-> "dict", fields |-> [scenario |-> "s1", end_timestamp |-> 20]],
      [kind |-> "object", fields |-> <<>>],
      [kind |-> "object",
       fields |-> [scenario |-> "s1", start_timestamp |-> 30, end_timestamp |-> 40]] }

\* longest batch and most reports studied
MaxBatchItems == 2
MaxBatchReports == 2

\* Resiliency.__init__
InitBatch ==
    /\ NoScoreCall
    /\ slos = normalise_alerts(BatchSloSource)
    /\ scenario_reports = <<>>
    /\ summary = None
    /\ detailed_report = None
    /\ last = Outcome("__init__", "", None, <<>>)

\* Resiliency.add_scenario_reports on a batch of BatchItems
add_scenario_reports_batch ==
    \E scenario_telemetries \in Lists(BatchItems, MaxBatchItems),
       weight \in BatchWeights :
       /\ Len(scenario_reports) + Len(scenario_telemetries) <= MaxBatchReports
       /\ \E evs \in Answers(slos, Len(scenario_telemetries),
                             Len(scenario_telemetries)) :
             \E out \in {ProcessBatch(BatchStart(scenario_reports),
                                      scenario_telemetries, evs, BatchScenarioType,
                                      BatchWindow[1], BatchWindow[2], weight)} :
                 /\ scenario_reports' = out.reports
                 /\ last' = [Outcome("add_scenario_reports", out.exc, None, out.evals)
                                EXCEPT !.tels = out.tels,
                                       !.item_raised = out.item_raised]
       /\ UNCHANGED <<slos, summary, detailed_report, score_vars>>

\* an entry of chaos_telemetry.scenarios that is an item of the batch
TelemetryEntry(tel) == [kind |-> tel.kind, fields |-> tel.fields, extras |-> <<>>]

\* Resiliency.attach_compact_to_telemetry on the entries the batch just
\* processed
attach_after_batch ==
    /\ last.op = "add_scenario_reports"
    /\ last' = [Outcome("attach_compact_to_telemetry", "", None, <<>>)
                   EXCEPT !.tels = NewScenarios(
                                       [i \in 1..Len(last.tels) |->
                                           TelemetryEntry(last.tels[i])],
                                       ScoreMap(scenario_reports))]
    /\ UNCHANGED <<aggregator_vars, score_vars>>

NextBatch ==
    \/ add_scenario_reports_batch
    \/ attach_after_batch

SpecBatch == InitBatch /\ [][NextBatch]_vars

----------------------------------------------------------------------------
(* Properties of the batches *)

\* the place in scenario_reports of the report made for the i-th item of the
\* batch recorded in `call`, the reports of a batch being the last ones
ReportIndexOf(call, i) ==
    Len(scenario_reports)
    - Cardinality({j \in (i + 1)..Len(call.tels) : ~call.item_raised[j]})

\* the window the claim gives an item: each timestamp the item supplies, the
\* batch's value for each one it omits
ClaimedWindow(tel) ==
    << IF "start_timestamp" \in DOMAIN tel.fields
       THEN fromtimestamp(tel.fields.start_timestamp) ELSE BatchWindow[1],
       IF "end_timestamp" \in DOMAIN tel.fields
       THEN fromtimestamp(tel.fields.end_timestamp) ELSE BatchWindow[2] >>

\* C27: in add_scenario_reports every item is evaluated over its own
\* timestamps, the batch window standing in for each timestamp it omits, and
\* is reported under its own scenario name, or under the batch scenario type
\* when it has none.
C27_ItemWindowAndName ==
    last.op = "add_scenario_reports" =>
        \A i \in 1..Len(last.tels) :
            /\ last.evals[i] = ClaimedWindow(last.tels[i])
            /\ ~last.item_raised[i] =>
                  scenario_reports[ReportIndexOf(last, i)].name =
                      IF "scenario" \in DOMAIN last.tels[i].fields
                      THEN last.tels[i].fields.scenario ELSE BatchScenarioType

\* C30: when attach_compact_to_telemetry is called on the entries a batch
\* just processed, every entry whose evaluation returned carries the compact
\* breakdown of the report made for its own window, entries sharing a
\* scenario name included.
C30_AttachKeepsOwnReport ==
    [][(last.op = "add_scenario_reports" /\ last'.op = "attach_compact_to_telemetry") =>
          \A i \in 1..Len(last.tels) :
              ~last.item_raised[i] =>
                  /\ "resiliency_report" \in DOMAIN last'.tels[i].fields
                  /\ last'.tels[i].fields.resiliency_report =
                        compact_breakdown(scenario_reports[ReportIndexOf(last, i)])]_vars

====
